---- MODULE Spec2Model ----
(***************************************************************************)
(* Model of kafka-segment-roll-ms.py: the log-line parser (parse_log), the *)
(* report builder (create_excel: ranked entries, partition summary,        *)
(* dashboard statistics, duration histogram) and the command-line run      *)
(* (__main__).  Cell styling, column widths and charts are not modelled;   *)
(* every value the report holds is.                                        *)
(***************************************************************************)
EXTENDS Integers, Sequences, FiniteSets, TLC

VARIABLES
    mode,        \* "cli": the __main__ block runs; "call": create_excel is called directly
    pathExists,  \* os.path.exists(log_path)
    lines,       \* the lines of the input file
    pc,          \* position of the run
    lineNo,      \* lines of the file parse_log has consumed
    parse_state, \* "not_called" | "running" | "returned" | "raised"
    entries,     \* parse_log's list / create_excel's argument
    raised,      \* the exception that escaped, "none" if none
    report,      \* what create_excel computed
    saved,       \* wb.save(output_path) was executed
    exitStatus   \* process exit status, -1 while there is none

vars == <<mode, pathExists, lines, pc, lineNo, parse_state, entries, raised,
          report, saved, exitStatus>>

(***************************************************************************)
(* Bounds of the checked input spaces.                                     *)
(***************************************************************************)
MaxLines == 3
MaxEntries == 3
MaxBucketEntries == 2
MaxWeightEntries == 5

BoundedSeq(S, n) == UNION {[1..k -> S] : k \in 0..n}

(***************************************************************************)
(* Generic helpers for Python built-ins.                                   *)
(***************************************************************************)
RECURSIVE SumSeq(_)
SumSeq(s) == IF s = <<>> THEN 0 ELSE s[1] + SumSeq(Tail(s))

MaxOf(s) == CHOOSE x \in {s[i] : i \in 1..Len(s)} : \A j \in 1..Len(s) : s[j] <= x

MinOf(s) == CHOOSE x \in {s[i] : i \in 1..Len(s)} : \A j \in 1..Len(s) : x <= s[j]

\* int(text) of a run of decimal digits
RECURSIVE DigitsToInt(_)
DigitsToInt(ds) ==
    IF ds = <<>> THEN 0
    ELSE 10 * DigitsToInt(SubSeq(ds, 1, Len(ds) - 1)) + ds[Len(ds)]

RECURSIVE Pow10(_)
Pow10(k) == IF k = 0 THEN 1 ELSE 10 * Pow10(k - 1)

(***************************************************************************)
(* sorted(xs, key=..., reverse=True): the positions of keys in the order   *)
(* the sort returns them.  Python's sort is stable and reverse=True keeps  *)
(* the original order of elements with equal keys.                         *)
(***************************************************************************)
InsertDesc_before_equal(keys, perm, i) ==
    LET later == {p \in 1..Len(perm) : keys[perm[p]] <= keys[i]}
        pos   == IF later = {} THEN Len(perm) + 1
                 ELSE CHOOSE p \in later : \A q \in later : p <= q
    IN  SubSeq(perm, 1, pos - 1) \o <<i>> \o SubSeq(perm, pos, Len(perm))

InsertDesc(keys, perm, i) ==
    LET later == {p \in 1..Len(perm) : keys[perm[p]] < keys[i]}
        pos   == IF later = {} THEN Len(perm) + 1
                 ELSE CHOOSE p \in later : \A q \in later : p <= q
    IN  SubSeq(perm, 1, pos - 1) \o <<i>> \o SubSeq(perm, pos, Len(perm))

RECURSIVE SortedDescUpTo(_, _)
SortedDescUpTo(keys, n) ==
    IF n = 0 THEN <<>> ELSE InsertDesc(keys, SortedDescUpTo(keys, n - 1), n)

SortedDescOrder(keys) == SortedDescUpTo(keys, Len(keys))

\* a descending order that puts the later of two equal keys first
\* (an ascending sort, reversed)
TieReversedDescOrder(keys) ==
    LET n == Len(keys)
    IN  [i \in 1..n |->
           CHOOSE k \in 1..n :
             Cardinality({j \in 1..n : \/ keys[j] > keys[k]
                                       \/ (keys[j] = keys[k] /\ j > k)}) = i - 1]

\* sorted(xs) of integers, ascending
RECURSIVE SortedAsc(_)
SortedAsc(s) ==
    IF s = <<>> THEN <<>>
    ELSE LET rest == SortedAsc(SubSeq(s, 1, Len(s) - 1))
             x    == s[Len(s)]
             k    == Cardinality({p \in 1..Len(rest) : rest[p] <= x})
         IN  SubSeq(rest, 1, k) \o <<x>> \o SubSeq(rest, k + 1, Len(rest))

(***************************************************************************)
(* Input lines.  A line is described by what parse_log looks at: whether   *)
(* it holds the marker substring, whether LINE_PATTERN.search finds a      *)
(* match, and the text of the groups the match captures (digits as         *)
(* written in the file).                                                   *)
(***************************************************************************)
TsText(y, mo, d, h, mi, s, f) ==
    [year |-> y, month |-> mo, day |-> d, hour |-> h, minute |-> mi,
     second |-> s, frac |-> f]

GoodTs      == TsText(<<2,0,2,4>>, <<0,1>>, <<1,5>>, <<1,0>>, <<3,0>>, <<0,0>>, <<1,2,3>>)
LeapTs      == TsText(<<2,0,2,4>>, <<0,2>>, <<2,9>>, <<2,3>>, <<5,9>>, <<5,9>>, <<1,2,3,4,5,6>>)
Month13Ts   == TsText(<<2,0,2,4>>, <<1,3>>, <<0,1>>, <<1,0>>, <<3,0>>, <<0,0>>, <<1,2,3>>)
Hour25Ts    == TsText(<<2,0,2,4>>, <<0,1>>, <<1,5>>, <<2,5>>, <<3,0>>, <<0,0>>, <<1,2,3>>)
LongFracTs  == TsText(<<2,0,2,4>>, <<0,1>>, <<1,5>>, <<1,0>>, <<3,0>>, <<0,0>>, <<1,2,3,4,5,6,7>>)

PartitionSamples == {"orders-0", "orders-1"}

MatchLine(ts, part, off, dur) ==
    [marker |-> TRUE, matched |-> TRUE, ts_str |-> ts, partition |-> part,
     offset |-> off, duration_ms |-> dur]

\* a line without the marker, and a line with the marker that fails the pattern
OtherLine  == [marker |-> FALSE, matched |-> FALSE, ts_str |-> GoodTs,
               partition |-> "", offset |-> <<0>>, duration_ms |-> <<0>>]
MarkerOnlyLine == [marker |-> TRUE, matched |-> FALSE, ts_str |-> GoodTs,
               partition |-> "", offset |-> <<0>>, duration_ms |-> <<0>>]

LineSamples ==
    {OtherLine, MarkerOnlyLine}
    \cup {MatchLine(GoodTs, p, <<0,4,2>>, d) :
            p \in PartitionSamples, d \in {<<7>>, <<1,5,0,0>>}}
    \cup {MatchLine(t, "orders-0", <<9>>, <<0,0,7>>) :
            t \in {LeapTs, Month13Ts, Hour25Ts, LongFracTs}}

(***************************************************************************)
(* datetime.strptime(ts_str, "%Y-%m-%d %H:%M:%S,%f"): ValueError unless    *)
(* every field is in range and the fraction has one to six digits.         *)
(***************************************************************************)
IsLeap(y) == (y % 4 = 0 /\ y % 100 # 0) \/ y % 400 = 0

DaysInMonth(y, m) ==
    IF m = 2 THEN (IF IsLeap(y) THEN 29 ELSE 28)
    ELSE IF m \in {4, 6, 9, 11} THEN 30 ELSE 31

strptime(t) ==
    LET y  == DigitsToInt(t.year)
        mo == DigitsToInt(t.month)
        d  == DigitsToInt(t.day)
        h  == DigitsToInt(t.hour)
        mi == DigitsToInt(t.minute)
        s  == DigitsToInt(t.second)
        ok == /\ y >= 1
              /\ mo \in 1..12
              /\ d >= 1 /\ d <= DaysInMonth(y, mo)
              /\ h <= 23 /\ mi <= 59 /\ s <= 59
              /\ Len(t.frac) \in 1..6
    IN  [ok |-> ok,
         value |-> IF ok
                   THEN <<y, mo, d, h, mi, s,
                          DigitsToInt(t.frac) * Pow10(6 - Len(t.frac))>>
                   ELSE <<>>]

(***************************************************************************)
(* create_excel.  An entry is [timestamp, partition, offset, duration_ms]; *)
(* the date, time and directory strings of an entry are presentation only. *)
(***************************************************************************)
style_status_shifted(duration_ms) ==
    IF duration_ms > 1000 THEN "SLOW"
    ELSE IF duration_ms > 100 THEN "MODERATE"
    ELSE "OK"

style_status(duration_ms) ==
    IF duration_ms >= 1000 THEN "SLOW"
    ELSE IF duration_ms >= 100 THEN "MODERATE"
    ELSE "OK"

Durations(es) == [i \in 1..Len(es) |-> es[i].duration_ms]

\* Sheet 1: sorted(entries, key=lambda e: e["duration_ms"], reverse=True)
sorted_entries_tie_reversed(es) ==
    LET ord == TieReversedDescOrder(Durations(es))
    IN  [i \in 1..Len(es) |-> es[ord[i]]]

sorted_entries(es) ==
    LET ord == SortedDescOrder(Durations(es))
    IN  [i \in 1..Len(es) |-> es[ord[i]]]

\* Sheet 2: the defaultdict filled in one pass; a dict keeps insertion order
AddToStats_no_lookup(stats, e) ==
    Append(stats, [partition |-> e.partition,
                   durations |-> <<e.duration_ms>>,
                   offsets   |-> <<e.offset>>])

AddToStats(stats, e) ==
    LET hit == {i \in 1..Len(stats) : stats[i].partition = e.partition}
    IN  IF hit = {}
        THEN Append(stats, [partition |-> e.partition,
                            durations |-> <<e.duration_ms>>,
                            offsets   |-> <<e.offset>>])
        ELSE [i \in 1..Len(stats) |->
                IF i \in hit
                THEN [stats[i] EXCEPT !.durations = Append(@, e.duration_ms),
                                      !.offsets   = Append(@, e.offset)]
                ELSE stats[i]]

RECURSIVE PartStatsUpTo(_, _)
PartStatsUpTo(es, n) ==
    IF n = 0 THEN <<>> ELSE AddToStats(PartStatsUpTo(es, n - 1), es[n])

part_stats(es) == PartStatsUpTo(es, Len(es))

\* sorted(part_stats.items(), key=lambda x: max(x[1]["durations"]), reverse=True)
sorted_parts_tie_reversed(stats) ==
    LET ord == TieReversedDescOrder([i \in 1..Len(stats) |-> MaxOf(stats[i].durations)])
    IN  [i \in 1..Len(stats) |-> stats[ord[i]]]

sorted_parts(stats) ==
    LET ord == SortedDescOrder([i \in 1..Len(stats) |-> MaxOf(stats[i].durations)])
    IN  [i \in 1..Len(stats) |-> stats[ord[i]]]

\* one row of the partition summary per group, in rank order
part_rows(sp) ==
    [i \in 1..Len(sp) |->
        LET d   == SortedAsc(sp[i].durations)
            cnt == Len(d)
        IN  [partition |-> sp[i].partition,
             cnt       |-> cnt,
             max_d     |-> MaxOf(d),
             min_d     |-> MinOf(d),
             median    |-> d[(cnt \div 2) + 1],
             total     |-> SumSeq(d),
             status    |-> style_status(MaxOf(d))]]

\* Sheet 3: the dashboard, built only "if entries"
P95Index_ceil(n) == (n * 95 + 99) \div 100

P95Index(n) == (n * 95) \div 100

P99Index(n) ==
    LET raw == (n * 99) \div 100 IN IF raw < n - 1 THEN raw ELSE n - 1

\* s[i] with Python's zero-based index i >= 0: IndexError past the end
Subscript(s, i) ==
    [ok |-> i < Len(s), value |-> IF i < Len(s) THEN s[i + 1] ELSE 0]

dashboard(es, se, stats) ==
    IF es = <<>> THEN <<>>
    ELSE LET all_d == SortedAsc(Durations(es))
             n     == Len(all_d)
             p95   == Subscript(all_d, P95Index(n))
             p99   == Subscript(all_d, P99Index(n))
         IN  << [total_events |-> Len(es),
                 unique       |-> Len(stats),
                 minimum      |-> MinOf(all_d),
                 maximum      |-> MaxOf(all_d),
                 median       |-> all_d[(n \div 2) + 1],
                 p95_index    |-> P95Index(n),
                 p99_index    |-> P99Index(n),
                 p95          |-> p95.value,
                 p99          |-> p99.value,
                 total        |-> SumSeq(all_d),
                 slowest      |-> se[1],
                 ok_count       |-> Cardinality({k \in 1..n : all_d[k] < 100}),
                 moderate_count |-> Cardinality({k \in 1..n : 100 <= all_d[k] /\ all_d[k] < 1000}),
                 slow_count     |-> Cardinality({k \in 1..n : all_d[k] >= 1000}),
                 fault        |-> IF p95.ok /\ p99.ok THEN "none" ELSE "IndexError"] >>

\* Sheet 4: the histogram
BarWidth == 30

Bucket(label, lo, hi, unbounded) ==
    [label |-> label, lo |-> lo, hi |-> hi, unbounded |-> unbounded]

buckets ==
    << Bucket("0-2 ms", 0, 2, FALSE),        Bucket("3-5 ms", 3, 5, FALSE),
       Bucket("6-10 ms", 6, 10, FALSE),      Bucket("11-50 ms", 11, 50, FALSE),
       Bucket("51-100 ms", 51, 100, FALSE),  Bucket("101-500 ms", 101, 500, FALSE),
       Bucket("501-1000 ms", 501, 1000, FALSE),
       Bucket("1001-5000 ms", 1001, 5000, FALSE),
       Bucket("5000+ ms", 5001, 0, TRUE) >>

InBucket_half_open(d, b) == b.lo <= d /\ (b.unbounded \/ d < b.hi)

\* lo <= d <= hi, hi being float('inf') for the last bucket
InBucket(d, b) == b.lo <= d /\ (b.unbounded \/ d <= b.hi)

bc(es) ==
    [i \in 1..Len(buckets) |->
        [label |-> buckets[i].label,
         count |-> Cardinality({k \in 1..Len(es) :
                                  InBucket(es[k].duration_ms, buckets[i])})]]

\* max(c for _, c in bc) if bc else 1
mx(b) == IF Len(b) > 0 THEN MaxOf([i \in 1..Len(b) |-> b[i].count]) ELSE 1

VisualWeight_rounded(count, m) == (2 * count * BarWidth + m) \div (2 * m)

\* int(count / mx * 30), for mx > 0
VisualWeight(count, m) == (count * BarWidth) \div m

\* The rows of the histogram sheet.  pct is kept as the exact fraction
\* pct_num / pct_den that round(pct, 1) is applied to.  The first row's
\* count / mx raises ZeroDivisionError when mx is 0, before any row is
\* complete.
hist_rows(es, b, m) ==
    IF Len(b) > 0 /\ m = 0
    THEN [rows |-> <<>>, fault |-> "ZeroDivisionError"]
    ELSE [rows |-> [i \in 1..Len(b) |->
                      [label   |-> b[i].label,
                       count   |-> b[i].count,
                       pct_num |-> IF es # <<>> THEN b[i].count * 100 ELSE 0,
                       pct_den |-> IF es # <<>> THEN Len(es) ELSE 1,
                       weight  |-> VisualWeight(b[i].count, m)]],
          fault |-> "none"]

create_excel(es) ==
    LET se == sorted_entries(es)
        ps == part_stats(es)
        sp == sorted_parts(ps)
        db == dashboard(es, se, ps)
        dbFault == IF db = <<>> THEN "none" ELSE db[1].fault
        b  == bc(es)
        m  == mx(b)
        h  == hist_rows(es, b, m)
    IN  [sorted_entries |-> se,
         entry_status   |-> [i \in 1..Len(se) |-> style_status(se[i].duration_ms)],
         part_stats     |-> ps,
         sorted_parts   |-> sp,
         part_rows      |-> part_rows(sp),
         dashboard      |-> db,
         bc             |-> IF dbFault = "none" THEN b ELSE <<>>,
         mx             |-> m,
         hist_rows      |-> IF dbFault = "none" THEN h.rows ELSE <<>>,
         fault          |-> IF dbFault = "none" THEN h.fault ELSE dbFault]

(***************************************************************************)
(* Inputs of a direct call of create_excel.                                *)
(***************************************************************************)
Entry(part, off, dur) ==
    [timestamp |-> strptime(GoodTs).value, partition |-> part,
     offset |-> off, duration_ms |-> dur]

EntrySamples ==
    {Entry(p, o, d) : p \in PartitionSamples, o \in {41, 42},
                      d \in {5, 100, 1000}}

BucketEdges ==
    {0, 2, 3, 5, 6, 10, 11, 50, 51, 99, 100, 101, 500, 501, 999, 1000, 1001,
     5000, 5001, 86400000}

BucketEntrySamples == {Entry("orders-0", 41, d) : d \in BucketEdges}

WeightEntrySamples == {Entry("orders-0", 41, d) : d \in {1, 4, 7000}}

(***************************************************************************)
(* Initial states.                                                         *)
(***************************************************************************)
InitCli ==
    /\ mode = "cli"
    /\ pathExists \in BOOLEAN
    /\ lines \in (IF pathExists THEN BoundedSeq(LineSamples, MaxLines) ELSE {<<>>})
    /\ pc = "main"
    /\ lineNo = 0
    /\ parse_state = "not_called"
    /\ entries = <<>>
    /\ raised = "none"
    /\ report = <<>>
    /\ saved = FALSE
    /\ exitStatus = -1

InitCallWith(inputs) ==
    /\ mode = "call"
    /\ pathExists = FALSE
    /\ lines = <<>>
    /\ pc = "create_excel"
    /\ lineNo = 0
    /\ parse_state = "not_called"
    /\ entries \in inputs
    /\ raised = "none"
    /\ report = <<>>
    /\ saved = FALSE
    /\ exitStatus = -1

InitCall == InitCallWith(BoundedSeq(EntrySamples, MaxEntries))

InitBuckets == InitCallWith(BoundedSeq(BucketEntrySamples, MaxBucketEntries))

InitWeights == InitCallWith(BoundedSeq(WeightEntrySamples, MaxWeightEntries))

(***************************************************************************)
(* The command-line run.  The file system is taken to behave: open() of   *)
(* an existing path and wb.save succeed.                                   *)
(***************************************************************************)
\* if not os.path.exists(log_path): sys.exit(1); else parse_log is entered
CheckPath ==
    /\ pc = "main"
    /\ IF ~pathExists
       THEN /\ pc' = "done"
            /\ exitStatus' = 1
            /\ UNCHANGED parse_state
       ELSE /\ pc' = "parse"
            /\ parse_state' = "running"
            /\ UNCHANGED exitStatus
    /\ UNCHANGED <<mode, pathExists, lines, lineNo, entries, raised, report, saved>>

\* one iteration of "for line in f" in parse_log; an exception strptime
\* raises is caught nowhere and ends the process with status 1
ParseLine ==
    /\ pc = "parse"
    /\ lineNo < Len(lines)
    /\ LET line == lines[lineNo + 1]
           ts   == strptime(line.ts_str)
       IN  IF ~line.marker \/ ~line.matched
           THEN /\ lineNo' = lineNo + 1
                /\ UNCHANGED <<pc, parse_state, entries, raised, exitStatus>>
           ELSE IF ~ts.ok
           THEN /\ raised' = "ValueError"
                /\ parse_state' = "raised"
                /\ pc' = "done"
                /\ exitStatus' = 1
                /\ UNCHANGED <<lineNo, entries>>
           ELSE /\ entries' = Append(entries,
                                 [timestamp   |-> ts.value,
                                  partition   |-> line.partition,
                                  offset      |-> DigitsToInt(line.offset),
                                  duration_ms |-> DigitsToInt(line.duration_ms)])
                /\ lineNo' = lineNo + 1
                /\ UNCHANGED <<pc, parse_state, raised, exitStatus>>
    /\ UNCHANGED <<mode, pathExists, lines, report, saved>>

CheckEntries_unguarded ==
    /\ pc = "parse"
    /\ lineNo = Len(lines)
    /\ parse_state' = "returned"
    /\ pc' = "create_excel"
    /\ UNCHANGED <<mode, pathExists, lines, lineNo, entries, raised, report, saved,
                   exitStatus>>

\* parse_log returns; if not entries: sys.exit(1)
CheckEntries ==
    /\ pc = "parse"
    /\ lineNo = Len(lines)
    /\ parse_state' = "returned"
    /\ IF entries = <<>>
       THEN pc' = "done" /\ exitStatus' = 1
       ELSE pc' = "create_excel" /\ UNCHANGED exitStatus
    /\ UNCHANGED <<mode, pathExists, lines, lineNo, entries, raised, report, saved>>

\* create_excel(entries, output): the workbook is saved only if nothing
\* raised before wb.save; the command-line run then ends with status 0
CreateExcel ==
    /\ pc = "create_excel"
    /\ LET r == create_excel(entries)
       IN  /\ report' = <<r>>
           /\ raised' = r.fault
           /\ saved' = (r.fault = "none")
           /\ exitStatus' = IF mode = "cli"
                            THEN (IF r.fault = "none" THEN 0 ELSE 1)
                            ELSE exitStatus
    /\ pc' = "done"
    /\ UNCHANGED <<mode, pathExists, lines, lineNo, parse_state, entries>>

Next == CheckPath \/ ParseLine \/ CheckEntries \/ CreateExcel

Spec == InitCli /\ [][Next]_vars

\* create_excel called directly on a list of entries
SpecCall == InitCall /\ [][CreateExcel]_vars

SpecBuckets == InitBuckets /\ [][CreateExcel]_vars

SpecWeights == InitWeights /\ [][CreateExcel]_vars

(***************************************************************************)
(* Properties.                                                             *)
(***************************************************************************)
Built == report # <<>>

R == report[1]

\* C1: the ranked-entries list is a permutation of the parsed entries, is
\* non-increasing in duration_ms, and entries of equal duration keep their
\* parse order.
C1_RankedEntriesStableDesc ==
    Built =>
        LET se == R.sorted_entries
            n  == Len(entries)
        IN  /\ Len(se) = n
            /\ \E perm \in [1..n -> 1..n] :
                  /\ \A i, j \in 1..n : i # j => perm[i] # perm[j]
                  /\ \A i \in 1..n : se[i] = entries[perm[i]]
                  /\ \A i, j \in 1..n : i < j =>
                        /\ se[i].duration_ms >= se[j].duration_ms
                        /\ se[i].duration_ms = se[j].duration_ms => perm[i] < perm[j]

C1_Witness ==
    /\ Built
    /\ Len(entries) = 3
    /\ entries[1].duration_ms = entries[2].duration_ms
    /\ entries[1] # entries[2]
    /\ entries[3].duration_ms > entries[1].duration_ms
    /\ R.sorted_entries = <<entries[3], entries[1], entries[2]>>

FirstSeen(part) ==
    CHOOSE k \in 1..Len(entries) :
        /\ entries[k].partition = part
        /\ \A j \in 1..(k - 1) : entries[j].partition # part

\* C2: the partition ranking is non-increasing in the groups' maximum
\* duration, and groups of equal maximum are in the order in which their
\* key was first met in the entries.
C2_PartitionRankingStable ==
    Built =>
        LET sp   == R.sorted_parts
            rows == R.part_rows
        IN  /\ Len(rows) = Len(sp)
            /\ \A i \in 1..Len(sp) :
                  /\ rows[i].partition = sp[i].partition
                  /\ \E k \in 1..Len(entries) :
                        /\ entries[k].partition = sp[i].partition
                        /\ entries[k].duration_ms = rows[i].max_d
                  /\ \A k \in 1..Len(entries) :
                        entries[k].partition = sp[i].partition
                            => entries[k].duration_ms <= rows[i].max_d
            /\ \A i, j \in 1..Len(sp) : i < j =>
                  /\ rows[i].max_d >= rows[j].max_d
                  /\ rows[i].max_d = rows[j].max_d
                        => FirstSeen(sp[i].partition) < FirstSeen(sp[j].partition)

C2_Witness ==
    /\ Built
    /\ Len(entries) = 3
    /\ Len(R.sorted_parts) = 2
    /\ R.part_rows[1].max_d = R.part_rows[2].max_d
    /\ R.sorted_parts[1].partition = "orders-1"
    /\ entries[1].partition = "orders-1"
    /\ entries[1].duration_ms < R.part_rows[1].max_d

\* C3: for a non-empty list the p95 and p99 indices are within 0..n-1, no
\* index fault occurs, each percentile is the order statistic at its index
\* and p95 <= p99 <= max.
C3_PercentilesInRange ==
    (Built /\ entries # <<>>) =>
        /\ Len(R.dashboard) = 1
        /\ LET d == R.dashboard[1]
               n == Len(entries)
               Below(v)  == Cardinality({k \in 1..n : entries[k].duration_ms < v})
               AtMost(v) == Cardinality({k \in 1..n : entries[k].duration_ms <= v})
           IN  /\ d.fault = "none"
               /\ d.p95_index \in 0..(n - 1)
               /\ d.p99_index \in 0..(n - 1)
               /\ Below(d.p95) <= d.p95_index /\ d.p95_index < AtMost(d.p95)
               /\ Below(d.p99) <= d.p99_index /\ d.p99_index < AtMost(d.p99)
               /\ d.p95 <= d.p99
               /\ d.p99 <= d.maximum
               /\ \A k \in 1..n : entries[k].duration_ms <= d.maximum

C3_Witness ==
    /\ Built
    /\ Len(entries) = 2
    /\ entries[1].duration_ms > entries[2].duration_ms
    /\ R.dashboard[1].p95_index = 1
    /\ R.dashboard[1].p99_index = 1
    /\ R.dashboard[1].p95 = entries[1].duration_ms

\* C4: over an empty entry list the histogram does not fault: the largest
\* bucket count is taken as 1 and every percentage and visual weight is 0.
C4_EmptyHistogramNoFault ==
    (Built /\ entries = <<>>) =>
        /\ R.fault = "none"
        /\ R.mx = 1
        /\ Len(R.hist_rows) = Len(buckets)
        /\ \A i \in 1..Len(R.hist_rows) :
              R.hist_rows[i].pct_num = 0 /\ R.hist_rows[i].weight = 0

ClaimedRanges ==
    << <<0, 2>>, <<3, 5>>, <<6, 10>>, <<11, 50>>, <<51, 100>>, <<101, 500>>,
       <<501, 1000>>, <<1001, 5000>> >>

InClaimedRange(d, i) ==
    IF i <= Len(ClaimedRanges)
    THEN ClaimedRanges[i][1] <= d /\ d <= ClaimedRanges[i][2]
    ELSE d >= 5001

\* C5: every duration is counted in exactly one of the nine fixed buckets,
\* the counts sum to the number of entries and the buckets are reported in
\* the definition order.
C5_BucketsPartitionDurations ==
    Built =>
        /\ Len(R.bc) = 9
        /\ [i \in 1..9 |-> R.bc[i].label]
              = <<"0-2 ms", "3-5 ms", "6-10 ms", "11-50 ms", "51-100 ms",
                  "101-500 ms", "501-1000 ms", "1001-5000 ms", "5000+ ms">>
        /\ \A i \in 1..9 :
              R.bc[i].count = Cardinality({k \in 1..Len(entries) :
                                  InClaimedRange(entries[k].duration_ms, i)})
        /\ \A k \in 1..Len(entries) :
              Cardinality({i \in 1..9 :
                  InClaimedRange(entries[k].duration_ms, i)}) = 1
        /\ SumSeq([i \in 1..9 |-> R.bc[i].count]) = Len(entries)

C5_Witness ==
    /\ Built
    /\ Len(entries) = 2
    /\ entries[1].duration_ms = 5001
    /\ entries[2].duration_ms = 5000
    /\ R.bc[8].count = 1
    /\ R.bc[9].count = 1

IsLargestCount(m) ==
    /\ \A i \in 1..Len(R.bc) : R.bc[i].count <= m
    /\ \E i \in 1..Len(R.bc) : R.bc[i].count = m

\* C6 as stated: the visual weight is count / maxBucketCount * 30 rounded
\* to the nearest integer, a fractional part of one half or more going up.
C6_WeightIsRounded ==
    Built =>
        \A i \in 1..Len(R.hist_rows) :
            LET row == R.hist_rows[i]
            IN  /\ IsLargestCount(R.mx)
                /\ 2 * R.mx * row.weight <= 2 * row.count * 30 + R.mx
                /\ 2 * row.count * 30 + R.mx < 2 * R.mx * (row.weight + 1)

\* C6 amended: the visual weight of every row written is
\* count / maxBucketCount * 30 with its fractional part dropped.
C6_WeightIsTruncated ==
    Built =>
        \A i \in 1..Len(R.hist_rows) :
            LET row == R.hist_rows[i]
            IN  /\ IsLargestCount(R.mx)
                /\ row.count = R.bc[i].count
                /\ R.mx * row.weight <= row.count * 30
                /\ row.count * 30 < R.mx * (row.weight + 1)

C6_Witness ==
    /\ Built
    /\ R.mx = 4
    /\ \E i \in 1..Len(R.hist_rows) :
          R.hist_rows[i].count = 1 /\ R.hist_rows[i].weight = 7

MatchingLines == {k \in 1..Len(lines) : lines[k].marker /\ lines[k].matched}

\* C7: parse_log never raises because of a line, and the entries it
\* returns are as many as the lines that match the grammar.
C7_ParseNeverRaises ==
    /\ parse_state # "raised"
    /\ parse_state = "returned" => Len(entries) = Cardinality(MatchingLines)

ClaimedLabel(d) ==
    IF d >= 1000 THEN "SLOW" ELSE IF 100 <= d /\ d < 1000 THEN "MODERATE" ELSE "OK"

\* C8: SLOW from 1000, MODERATE from 100 to 999, OK below, for an entry's
\* status, a group's status (of its max) and the dashboard counts, which
\* sum to the number of entries and agree with the per-entry statuses.
C8_SeverityThresholds ==
    Built =>
        /\ \A i \in 1..Len(R.sorted_entries) :
              R.entry_status[i] = ClaimedLabel(R.sorted_entries[i].duration_ms)
        /\ \A i \in 1..Len(R.part_rows) :
              R.part_rows[i].status = ClaimedLabel(R.part_rows[i].max_d)
        /\ \A i \in 1..Len(R.dashboard) :
              LET d == R.dashboard[i]
                  WithStatus(l) == Cardinality({k \in 1..Len(R.entry_status) :
                                                 R.entry_status[k] = l})
              IN  /\ d.ok_count + d.moderate_count + d.slow_count = Len(entries)
                  /\ d.ok_count = WithStatus("OK")
                  /\ d.moderate_count = WithStatus("MODERATE")
                  /\ d.slow_count = WithStatus("SLOW")

C8_Witness ==
    /\ Built
    /\ Len(entries) = 2
    /\ entries[1].duration_ms = 100
    /\ entries[2].duration_ms = 999
    /\ R.entry_status = <<"MODERATE", "MODERATE">>
    /\ R.dashboard[1].moderate_count = 2
    /\ R.part_rows[1].status = "MODERATE"

\* C9: in the command-line run create_excel is reached only after the path
\* was found to exist and parse_log returned at least one entry; a missing
\* path exits non-zero before any parsing, no matching line exits non-zero
\* after parsing, both without a report; status 0 only after the save.
C9_ReportOnlyAfterGuards ==
    mode = "cli" =>
        /\ (pc = "create_excel" \/ Built \/ saved) =>
              pathExists /\ parse_state = "returned" /\ Len(entries) >= 1
        /\ exitStatus = 0 => saved
        /\ (pc = "done" /\ ~pathExists) =>
              /\ exitStatus # 0 /\ exitStatus # -1
              /\ parse_state = "not_called" /\ lineNo = 0
              /\ ~Built /\ ~saved
        /\ (pc = "done" /\ pathExists /\ MatchingLines = {}) =>
              /\ exitStatus # 0 /\ exitStatus # -1
              /\ parse_state = "returned" /\ lineNo = Len(lines)
              /\ ~Built /\ ~saved

C9_Witness ==
    /\ mode = "cli"
    /\ pc = "done"
    /\ exitStatus = 0
    /\ saved
    /\ Len(entries) = 2
    /\ Len(lines) = 3

\* C10: after the aggregation pass every entry is in exactly one group, that
\* of its partition: each group's count is the length of its durations and
\* of its offsets, no group is empty, there are as many groups as distinct
\* partition keys and the counts sum to the number of entries.
C10_GroupsPartitionEntries ==
    Built =>
        LET ps   == R.part_stats
            rows == R.part_rows
            Of(part) == SelectSeq(entries, LAMBDA e : e.partition = part)
        IN  /\ Len(ps) = Cardinality({entries[k].partition : k \in 1..Len(entries)})
            /\ \A i, j \in 1..Len(ps) : i # j => ps[i].partition # ps[j].partition
            /\ \A i \in 1..Len(ps) :
                  /\ Len(ps[i].durations) >= 1
                  /\ Len(ps[i].durations) = Len(ps[i].offsets)
                  /\ ps[i].durations = [k \in 1..Len(Of(ps[i].partition)) |->
                                           Of(ps[i].partition)[k].duration_ms]
                  /\ ps[i].offsets = [k \in 1..Len(Of(ps[i].partition)) |->
                                         Of(ps[i].partition)[k].offset]
            /\ Len(rows) = Len(ps)
            /\ \A i \in 1..Len(rows) :
                  \E g \in 1..Len(ps) :
                      /\ ps[g].partition = rows[i].partition
                      /\ rows[i].cnt = Len(ps[g].durations)
            /\ SumSeq([i \in 1..Len(rows) |-> rows[i].cnt]) = Len(entries)

C10_Witness ==
    /\ Built
    /\ Len(entries) = 3
    /\ entries[1].partition = "orders-0"
    /\ entries[2].partition = "orders-1"
    /\ entries[3].partition = "orders-0"
    /\ Len(R.part_stats) = 2
    /\ Len(R.part_stats[1].durations) = 2
    /\ Len(R.part_stats[2].durations) = 1

\* C11: for a non-empty list the dashboard's slowest entry is the first of
\* the ranked entries, has the largest duration of all entries and is the
\* earliest parsed entry of that duration; the rank-1 group of the
\* partition summary has that same duration as its max.
C11_SlowestIsEarliestMaximum ==
    (Built /\ entries # <<>>) =>
        /\ Len(R.dashboard) = 1
        /\ Len(R.part_rows) >= 1
        /\ LET slowest == R.dashboard[1].slowest
               n       == Len(entries)
           IN  /\ slowest = R.sorted_entries[1]
               /\ \A k \in 1..n : entries[k].duration_ms <= slowest.duration_ms
               /\ \E k \in 1..n :
                     /\ entries[k] = slowest
                     /\ \A j \in 1..(k - 1) :
                           entries[j].duration_ms < slowest.duration_ms
               /\ R.dashboard[1].maximum = slowest.duration_ms
               /\ R.part_rows[1].max_d = slowest.duration_ms

C11_Witness ==
    /\ Built
    /\ Len(entries) = 3
    /\ entries[1].duration_ms < entries[2].duration_ms
    /\ entries[2].duration_ms = entries[3].duration_ms
    /\ entries[2].partition # entries[3].partition
    /\ R.dashboard[1].slowest = entries[2]
    /\ R.part_rows[1].partition = entries[3].partition
    /\ R.part_rows[1].max_d = entries[2].duration_ms

====
